---- MODULE Spec2Model ----
(***************************************************************************)
(* Model of the Caddy replace_response handler (handler.go).               *)
(*                                                                         *)
(* Byte strings are sequences of one-character strings.  The handler is    *)
(* provisioned once and then serves request cycles, one after the other    *)
(* (Spec, SpecSinkErr, SpecTransformErr) or concurrently (SpecConcurrent); *)
(* the upstream handler (next.ServeHTTP) is the environment and calls      *)
(* back into the response writer it was given.                             *)
(*                                                                         *)
(* The transformers the handler builds (replace.String,                    *)
(* replace.RegexpString, transform.Chain) and the writer it wraps around   *)
(* them (transform.NewWriter) are modelled by what they do at the call     *)
(* sites of handler.go, for data far smaller than their 4096-byte          *)
(* internal buffers.  Regular expressions are the fragment                 *)
(*      chars  or  chars ( alt | alt | ... ) chars                         *)
(* whose branches are all non-empty, matched leftmost-first.               *)
(***************************************************************************)
EXTENDS Integers, Sequences, FiniteSets, TLC

\* ------------------------------------------------------------------ bounds
\* number of Write calls the upstream handler makes in one cycle
MaxWrites == 3
\* number of request cycles served by the handler
MaxRequests == 2
\* lookahead of a regexp stage (RegexpTransformer.MaxMatchSize), scaled down
MaxMatchSize == 3
\* number of request cycles that run concurrently on the handler
NumCycles == 2
\* number of Write calls the upstream handler makes in a concurrent cycle
MaxCycleWrites == 1

\* F(v), with v evaluated once however often F uses its argument
Strict(v, F(_)) == CHOOSE r \in {F(x) : x \in {v}} : TRUE

\* ------------------------------------------------------------- byte strings
Tail2(s, n) == SubSeq(s, n + 1, Len(s))

HasPrefix(s, p) ==
    /\ Len(p) <= Len(s)
    /\ \A k \in 1..Len(p) : s[k] = p[k]

\* bytes.Index: offset of the first occurrence of sep in s, -1 if none
Index(s, sep) ==
    LET hits == {i \in 0..(Len(s) - Len(sep)) : HasPrefix(Tail2(s, i), sep)}
    IN  IF hits = {} THEN -1 ELSE CHOOSE i \in hits : \A j \in hits : i <= j

\* ------------------------------------------------- replace.String (literal)
\* the search loop of Transformer.Transform: replace every occurrence of old
\* found in src from offset nSrc on
RECURSIVE StringLoop(_, _, _, _, _)
StringLoop(old, new, src, nSrc, dst) ==
    Strict(Index(Tail2(src, nSrc), old), LAMBDA i :
        IF i = -1
        THEN [dst |-> dst, nSrc |-> nSrc]
        ELSE Strict(nSrc + i + Len(old), LAMBDA n :
             Strict(dst \o SubSeq(src, nSrc + 1, nSrc + i) \o new, LAMBDA d :
                 StringLoop(old, new, src, n, d))))

\* fault: Transformer.Transform that holds back one byte more, as many as
\* the pattern is long
StringTransformKeepOld(t, src, atEOF) ==
    IF Len(t.old) = 0
    THEN [dst |-> src, nSrc |-> Len(src), err |-> ""]
    ELSE Strict(StringLoop(t.old, t.new, src, 0, <<>>), LAMBDA r :
         LET skip == (Len(src) - r.nSrc) - Len(t.old)
         IN  IF atEOF
             THEN [dst |-> r.dst \o Tail2(src, r.nSrc), nSrc |-> Len(src), err |-> ""]
             ELSE IF skip > 0
             THEN [dst |-> r.dst \o SubSeq(src, r.nSrc + 1, r.nSrc + skip),
                   nSrc |-> r.nSrc + skip, err |-> "ErrShortSrc"]
             ELSE [dst |-> r.dst, nSrc |-> r.nSrc, err |-> "ErrShortSrc"])

\* Transformer.Transform of replace.String(old, new)
StringTransform(t, src, atEOF) ==
    IF Len(t.old) = 0
    THEN [dst |-> src, nSrc |-> Len(src), err |-> ""]
    ELSE Strict(StringLoop(t.old, t.new, src, 0, <<>>), LAMBDA r :
         LET skip == (Len(src) - r.nSrc) - Len(t.old) + 1
         IN  IF atEOF
             THEN [dst |-> r.dst \o Tail2(src, r.nSrc), nSrc |-> Len(src), err |-> ""]
             ELSE IF skip > 0
             THEN [dst |-> r.dst \o SubSeq(src, r.nSrc + 1, r.nSrc + skip),
                   nSrc |-> r.nSrc + skip, err |-> "ErrShortSrc"]
             ELSE [dst |-> r.dst, nSrc |-> r.nSrc, err |-> "ErrShortSrc"])

\* ------------------------------------------------------- regexp (fragment)
Positions(expr, c) == {i \in 1..Len(expr) : expr[i] = c}

RECURSIVE Split(_, _)
Split(s, sep) ==
    Strict(Index(s, <<sep>>), LAMBDA i :
        IF i = -1 THEN <<s>>
        ELSE Strict(Tail2(s, i + 1), LAMBDA rest :
                 <<SubSeq(s, 1, i)>> \o Split(rest, sep)))

\* regexp.Compile: the branches of the expression in priority order, each
\* with the text its capture group 1 takes, or the syntax error
Compile(expr) ==
    LET open  == Positions(expr, "(")
        close == Positions(expr, ")")
    IN  IF open = {} /\ close = {}
        THEN [err |-> "", branches |-> <<[text |-> expr, cap |-> <<>>]>>]
        ELSE IF Cardinality(open) > Cardinality(close)
        THEN [err |-> "missing closing )", branches |-> <<>>]
        ELSE IF Cardinality(open) < Cardinality(close)
        THEN [err |-> "unexpected )", branches |-> <<>>]
        ELSE LET i == CHOOSE x \in open : TRUE
                 j == CHOOSE x \in close : TRUE
             IN  IF j < i
                 THEN [err |-> "unexpected )", branches |-> <<>>]
                 ELSE Strict(Split(SubSeq(expr, i + 1, j - 1), "|"), LAMBDA alts :
                      [err |-> "",
                       branches |-> [k \in 1..Len(alts) |->
                           [text |-> SubSeq(expr, 1, i - 1) \o alts[k] \o Tail2(expr, j),
                            cap  |-> alts[k]]]])

\* the branch that matches s at offset q (leftmost-first: the first one in
\* priority order), 0 if none
MatchAt(re, s, q) ==
    LET ok == {k \in 1..Len(re) : HasPrefix(Tail2(s, q), re[k].text)}
    IN  IF ok = {} THEN 0 ELSE CHOOSE k \in ok : \A l \in ok : k <= l

\* Regexp.FindAllSubmatchIndex(s, -1) from offset pos on: the successive
\* non-overlapping matches [lo, hi) with the text of group 1
RECURSIVE FindAllSubmatchIndex(_, _, _)
FindAllSubmatchIndex(re, s, pos) ==
    Strict({q \in pos..Len(s) : MatchAt(re, s, q) # 0}, LAMBDA starts :
        IF starts = {} THEN <<>>
        ELSE Strict(CHOOSE x \in starts : \A y \in starts : x <= y, LAMBDA q :
             Strict(re[MatchAt(re, s, q)], LAMBDA b :
             Strict(q + Len(b.text), LAMBDA hi :
                 <<[lo |-> q, hi |-> hi, cap |-> b.cap]>>
                     \o FindAllSubmatchIndex(re, s, hi)))))

\* fault: Expand that takes every group for unmatched
RECURSIVE ExpandDropGroup(_, _)
ExpandDropGroup(template, cap) ==
    IF template = <<>> THEN <<>>
    ELSE IF Len(template) >= 2 /\ template[1] = "$" /\ template[2] = "1"
    THEN ExpandDropGroup(Tail2(template, 2), cap)
    ELSE <<template[1]>> \o ExpandDropGroup(Tail2(template, 1), cap)

\* Regexp.Expand: $1 in the template stands for the text of group 1
RECURSIVE Expand(_, _)
Expand(template, cap) ==
    IF template = <<>> THEN <<>>
    ELSE IF Len(template) >= 2 /\ template[1] = "$" /\ template[2] = "1"
    THEN cap \o Expand(Tail2(template, 2), cap)
    ELSE <<template[1]>> \o Expand(Tail2(template, 1), cap)

\* the match loop of RegexpTransformer.Transform: the bytes before a match
\* are copied, then the replacement; a match that ends where the window ends
\* is left for the next call unless the input has ended
RECURSIVE RegexpLoop(_, _, _, _, _, _, _)
RegexpLoop(t, src, atEOF, index, k, nSrc, dst) ==
    IF k > Len(index) THEN [dst |-> dst, nSrc |-> nSrc]
    ELSE Strict(dst \o SubSeq(src, nSrc + 1, index[k].lo), LAMBDA upTo :
         IF index[k].hi = Len(src) /\ ~atEOF
         THEN [dst |-> upTo, nSrc |-> index[k].lo]
         ELSE Strict(upTo \o Expand(t.new, index[k].cap), LAMBDA d :
                  RegexpLoop(t, src, atEOF, index, k + 1, index[k].hi, d)))

\* RegexpTransformer.Transform of replace.RegexpString(re, template)
RegexpTransform(t, src, atEOF) ==
    Strict(FindAllSubmatchIndex(t.re, src, 0), LAMBDA index :
    Strict(RegexpLoop(t, src, atEOF, index, 1, 0, <<>>), LAMBDA r :
    LET skip == (Len(src) - r.nSrc) - MaxMatchSize
    IN  IF atEOF
        THEN [dst |-> r.dst \o Tail2(src, r.nSrc), nSrc |-> Len(src), err |-> ""]
        ELSE IF skip > 0
        THEN [dst |-> r.dst \o SubSeq(src, r.nSrc + 1, r.nSrc + skip),
              nSrc |-> r.nSrc + skip, err |-> "ErrShortSrc"]
        ELSE [dst |-> r.dst, nSrc |-> r.nSrc, err |-> "ErrShortSrc"]))

Transform(t, src, atEOF) ==
    Strict(src, LAMBDA s :
        IF t.kind = "regexp" THEN RegexpTransform(t, s, atEOF)
        ELSE StringTransform(t, s, atEOF))

\* ---------------------------------------------------------- transform.Chain
\* chain.Transform from stage i on.  link[i] holds the bytes stage i+1 has
\* not consumed yet; the input of stage 1 is the caller's src.
RECURSIVE ChainRun(_, _, _, _, _, _, _)
ChainRun(c, link, i, in, atEOF, nSrc, err) ==
    Strict(Transform(c[i], in, atEOF), LAMBDA r :
    Strict(IF i = 1 THEN link ELSE [link EXCEPT ![i - 1] = Tail2(in, r.nSrc)], LAMBDA link2 :
    LET nSrc2 == IF i = 1 THEN r.nSrc ELSE nSrc
        err2  == IF i = 1 THEN r.err ELSE err
    IN  IF i = Len(c)
        THEN [dst |-> r.dst, nSrc |-> nSrc2, err |-> err2, link |-> link2]
        ELSE Strict(link2[i] \o r.dst, LAMBDA out :
                 ChainRun(c, link2, i + 1, out, atEOF, nSrc2, err2))))

ChainTransform(c, link, src, atEOF) ==
    Strict(c, LAMBDA cc : Strict(link, LAMBDA l : Strict(src, LAMBDA s :
        ChainRun(cc, l, 1, s, atEOF, 0, ""))))

\* chain.Reset: every link buffer is emptied
ChainReset(c) == [i \in 1..(Len(c) - 1) |-> <<>>]

\* transform.Bytes(t, b): reset, then one pass at end of input
TransformBytes(c, b) ==
    Strict(ChainTransform(c, ChainReset(c), b, TRUE), LAMBDA r :
        [result |-> r.dst, n |-> r.nSrc, err |-> r.err, link |-> r.link])

\* --------------------------------------------- destination http.ResponseWriter
NoHeader == -1

\* a response nothing has been sent on yet; header is the Content-Length
\* entry of w.Header(), sentLength the entry as it was when the headers went
\* out, headerCalls the number of WriteHeader calls made on w
NewResponse ==
    [header |-> NoHeader, wroteHeader |-> FALSE, status |-> 0,
     sentLength |-> NoHeader, implicit |-> FALSE, body |-> <<>>, headerCalls |-> 0]

\* w.WriteHeader(status): the headers are sent as they stand, once; byWrite
\* is the call w.Write makes on its own when the headers are not out yet
WWriteHeader(rw, status, byWrite) ==
    Strict(IF byWrite THEN rw ELSE [rw EXCEPT !.headerCalls = @ + 1], LAMBDA c :
        IF c.wroteHeader THEN c
        ELSE [c EXCEPT !.wroteHeader = TRUE, !.status = status,
                       !.sentLength = c.header, !.implicit = byWrite])

\* w.Write(d): sends the headers with status 200 if they are not out yet;
\* ok = FALSE is a write the connection rejects
WWrite(rw, d, ok) ==
    Strict(WWriteHeader(rw, 200, TRUE), LAMBDA h :
        IF ok THEN [h EXCEPT !.body = h.body \o d] ELSE h)

\* the successive w.Write calls one Writer operation makes; call number f
\* (if any) is rejected
RECURSIVE WWriteAll(_, _, _, _)
WWriteAll(rw, calls, k, f) ==
    IF k > Len(calls) THEN rw
    ELSE Strict(WWrite(rw, calls[k], k # f), LAMBDA rw2 :
             WWriteAll(rw2, calls, k + 1, f))

\* ------------------------------------------------------- transform.Writer
\* transform.NewWriter(w, t): t is reset, nothing is left over
NewWriter == [src |-> <<>>, stale |-> FALSE]

\* Writer.Write(data).  src is the input left over from earlier writes
\* (w.src[:w.n]); calls are the w.Write calls made, in order; call f fails.
\* When a call fails the writer returns at once and w.n keeps the value it
\* had when the loop was entered.
WriterWrite(c, link, tw, data, f) ==
    Strict(IF Len(tw.src) > 0 THEN tw.src \o data ELSE data, LAMBDA src1 :
    Strict(ChainTransform(c, link, src1, FALSE), LAMBDA t1 :
    Strict(Tail2(src1, t1.nSrc), LAMBDA rest1 :
    Strict(ChainTransform(c, t1.link, rest1, FALSE), LAMBDA t2 :
    LET had   == Len(tw.src) > 0
        n1    == IF had THEN Len(data) ELSE 0
        n2    == n1 - Len(rest1)
        rest2 == Tail2(rest1, t2.nSrc)
    IN  IF f = 1
        THEN [calls |-> <<t1.dst>>, n |-> n1, err |-> "write error", link |-> t1.link,
              tw |-> [src |-> IF had THEN src1 ELSE <<>>,
                      stale |-> tw.stale \/ (had /\ t1.nSrc > 0)]]
        ELSE IF ~had
        THEN [calls |-> <<t1.dst>>, n |-> t1.nSrc + Len(rest1), err |-> "", link |-> t1.link,
              tw |-> [src |-> rest1, stale |-> FALSE]]
        ELSE IF Len(rest1) > n1
        THEN [calls |-> <<t1.dst>>, n |-> n1, err |-> "", link |-> t1.link,
              tw |-> [src |-> rest1, stale |-> FALSE]]
        ELSE IF n2 >= Len(data)
        THEN [calls |-> <<t1.dst>>, n |-> n2, err |-> "", link |-> t1.link,
              tw |-> [src |-> <<>>, stale |-> FALSE]]
        ELSE IF f = 2
        THEN [calls |-> <<t1.dst, t2.dst>>, n |-> n2, err |-> "write error", link |-> t2.link,
              tw |-> [src |-> <<>>, stale |-> FALSE]]
        ELSE [calls |-> <<t1.dst, t2.dst>>, n |-> n2 + t2.nSrc + Len(rest2), err |-> "",
              link |-> t2.link, tw |-> [src |-> rest2, stale |-> FALSE]]))))

\* Writer.Close(): the leftover input is transformed at end of input and
\* written with one w.Write call; w.n is left as it is
WriterClose(c, link, tw, f) ==
    Strict(ChainTransform(c, link, tw.src, TRUE), LAMBDA t :
        [calls |-> <<t.dst>>, err |-> IF f = 1 THEN "write error" ELSE t.err,
         link |-> t.link, tw |-> tw])

\* ------------------------------------------------------------ configuration
\* a Replacement of the JSON configuration; re is set by Provision
Replacement(search, searchRegexp, replace) ==
    [Search |-> search, SearchRegexp |-> searchRegexp, Replace |-> replace, re |-> <<>>]

Literal(search, replace) == Replacement(search, <<>>, replace)
Regexp(expr, replace)    == Replacement(<<>>, expr, replace)

\* the rule lists a handler is configured with
Configs ==
    { <<>>,
      <<Replacement(<<>>, <<>>, <<"X">>)>>,
      <<Literal(<<"A">>, <<"B">>), Replacement(<<"A">>, <<"A">>, <<"X">>)>>,
      <<Literal(<<"A">>, <<"B">>), Regexp(<<"A", "(", "B">>, <<"X">>)>>,
      <<Literal(<<"A">>, <<"B">>), Literal(<<"B">>, <<"C">>)>>,
      <<Literal(<<"B">>, <<"C">>), Literal(<<"A">>, <<"B">>)>>,
      <<Literal(<<"f", "o", "o", "b", "a", "r">>, <<"X">>)>>,
      <<Literal(<<"A", "B", "A">>, <<"X", "Y">>)>>,
      <<Literal(<<"A", "B">>, <<>>), Literal(<<"B", "A">>, <<"A", "A", "B">>)>>,
      <<Regexp(<<"A", "(", "B", "B", "|", ")">>, <<"X">>)>>,
      <<Regexp(<<"A", "(", "B", "B", "|", ")">>, <<"$", "1", "C">>)>>,
      <<Regexp(<<"A", "B", "A", "B">>, <<"X">>)>>,
      <<Regexp(<<"A", "(", "B", "B", "|", ")">>, <<"$", "1", "C">>),
        Literal(<<"C", "B">>, <<"A">>)>> }

Statuses == {200, 404}

\* the Content-Length the upstream handler declares
DeclaredLength == 5

\* ------------------------------------------------------------------- state
VARIABLES
    Replacements,     \* Handler.Replacements
    Stream,           \* Handler.Stream
    transformerPool,  \* Handler.transformerPool: does it exist, idle transformers
    provErr,          \* what Provision returned
    pc,               \* "new", "failed", "idle", "upstream", "done"
    requests,         \* request cycles started so far
    tr,               \* the transformer the running cycle took from the pool
    fw,               \* the replaceWriter of a streaming cycle
    rec,              \* the response recorder of a buffered cycle
    w,                \* the destination http.ResponseWriter
    input,            \* every byte the upstream handler has written this cycle
    nWrites,          \* number of Write calls the upstream handler has made
    ret,              \* what ServeHTTP returned
    declared,         \* has the upstream handler set Content-Length this cycle
    sink,             \* the errors the destination has answered with
    cycles,           \* the ServeHTTP calls that run concurrently, one per goroutine
    instances,        \* the link buffers of every transformer transformerPool.New made
    pooled            \* the transformers (indices into instances) idle in the pool

vars == <<Replacements, Stream, transformerPool, provErr, pc, requests, tr, fw,
          rec, w, input, nWrites, ret, declared, sink, cycles, instances, pooled>>

\* the state of the handler serving one request after the other
seqVars == <<requests, tr, fw, rec, w, input, nWrites, ret, declared, sink>>

\* the state of the handler serving requests concurrently
concVars == <<cycles, instances, pooled>>

\* a ServeHTTP call that has not taken a transformer yet; next is the index
\* of the deferred call to run next once the function returns
NewCycle ==
    [pc |-> "start", tr |-> 0, tw |-> NewWriter, body |-> <<>>, writes |-> <<>>,
     err |-> "", next |-> 1, closed |-> FALSE, put |-> FALSE]

\* the chunks the upstream handler writes: pieces of the text the
\* configured rules are about
Chunks ==
    IF \E i \in 1..Len(Replacements) : \E k \in 1..Len(Replacements[i].Search) :
           Replacements[i].Search[k] = "f"
    THEN { <<"f", "o">>, <<"o", "b", "a", "r">>, <<"A">> }
    ELSE { <<"A">>, <<"B">>, <<"A", "B">>, <<"B", "A">> }

NoError == [format |-> "", index |-> <<>>, cause |-> ""]

\* shouldBuf of ServeHTTP: every response is buffered
shouldBuf == TRUE

\* caddyhttp.NewResponseRecorder(w, respBuf, shouldBuf) with respBuf reset
NewResponseRecorder ==
    [statusCode |-> 0, wroteHeader |-> FALSE, stream |-> FALSE, buf |-> <<>>]

NoSinkError == [write |-> "", writeReturned |-> "", close |-> "", resent |-> FALSE]

Init ==
    /\ Replacements \in Configs
    /\ Stream \in BOOLEAN
    /\ transformerPool = [exists |-> FALSE, idle |-> <<>>]
    /\ provErr = NoError
    /\ pc = "new"
    /\ requests = 0
    /\ tr = [link |-> <<>>]
    /\ fw = [wroteHeader |-> FALSE, tw |-> NewWriter]
    /\ rec = NewResponseRecorder
    /\ w = NewResponse
    /\ input = <<>>
    /\ nWrites = 0
    /\ ret = "pending"
    /\ declared = FALSE
    /\ sink = NoSinkError
    /\ cycles = [c \in 1..NumCycles |-> NewCycle]
    /\ instances = <<>>
    /\ pooled = <<>>

\* ---------------------------------------------------------------- Provision
\* fault: PrepareFrom that accepts a rule with both search and search_regexp
RECURSIVE PrepareFromAllowBoth(_, _)
PrepareFromAllowBoth(repls, i) ==
    IF i >= Len(repls) THEN [err |-> NoError, repls |-> repls]
    ELSE Strict(repls[i + 1], LAMBDA repl :
         Strict(Compile(repl.SearchRegexp), LAMBDA c :
             IF repl.Search = <<>> /\ repl.SearchRegexp = <<>>
             THEN [err |-> [format |-> "replacement %d: no search or search_regexp configured",
                            index |-> <<i>>, cause |-> ""],
                   repls |-> repls]
             ELSE IF repl.SearchRegexp # <<>>
             THEN IF c.err # ""
                  THEN [err |-> [format |-> "replacement %d: %v", index |-> <<i>>, cause |-> c.err],
                        repls |-> repls]
                  ELSE Strict([repls EXCEPT ![i + 1].re = c.branches], LAMBDA prepared :
                           PrepareFromAllowBoth(prepared, i + 1))
             ELSE PrepareFromAllowBoth(repls, i + 1)))

\* fault: PrepareFrom that reports the compile error of a rule without the
\* index of the rule
RECURSIVE PrepareFromNoIndex(_, _)
PrepareFromNoIndex(repls, i) ==
    IF i >= Len(repls) THEN [err |-> NoError, repls |-> repls]
    ELSE Strict(repls[i + 1], LAMBDA repl :
         Strict(Compile(repl.SearchRegexp), LAMBDA c :
             IF repl.Search = <<>> /\ repl.SearchRegexp = <<>>
             THEN [err |-> [format |-> "replacement %d: no search or search_regexp configured",
                            index |-> <<i>>, cause |-> ""],
                   repls |-> repls]
             ELSE IF repl.Search # <<>> /\ repl.SearchRegexp # <<>>
             THEN [err |-> [format |-> "replacement %d: cannot specify both search and search_regexp in same replacement",
                            index |-> <<i>>, cause |-> ""],
                   repls |-> repls]
             ELSE IF repl.SearchRegexp # <<>>
             THEN IF c.err # ""
                  THEN [err |-> [format |-> "%v", index |-> <<>>, cause |-> c.err],
                        repls |-> repls]
                  ELSE Strict([repls EXCEPT ![i + 1].re = c.branches], LAMBDA prepared :
                           PrepareFromNoIndex(prepared, i + 1))
             ELSE PrepareFromNoIndex(repls, i + 1)))

\* the loop of Provision over the replacements from index i (0-based) on:
\* the first error, and the replacements with re set as far as the loop got
RECURSIVE PrepareFrom(_, _)
PrepareFrom(repls, i) ==
    IF i >= Len(repls) THEN [err |-> NoError, repls |-> repls]
    ELSE Strict(repls[i + 1], LAMBDA repl :
         Strict(Compile(repl.SearchRegexp), LAMBDA c :
             IF repl.Search = <<>> /\ repl.SearchRegexp = <<>>
             THEN [err |-> [format |-> "replacement %d: no search or search_regexp configured",
                            index |-> <<i>>, cause |-> ""],
                   repls |-> repls]
             ELSE IF repl.Search # <<>> /\ repl.SearchRegexp # <<>>
             THEN [err |-> [format |-> "replacement %d: cannot specify both search and search_regexp in same replacement",
                            index |-> <<i>>, cause |-> ""],
                   repls |-> repls]
             ELSE IF repl.SearchRegexp # <<>>
             THEN IF c.err # ""
                  THEN [err |-> [format |-> "replacement %d: %v", index |-> <<i>>, cause |-> c.err],
                        repls |-> repls]
                  ELSE Strict([repls EXCEPT ![i + 1].re = c.branches], LAMBDA prepared :
                           PrepareFrom(prepared, i + 1))
             ELSE PrepareFrom(repls, i + 1)))

\* transformerPool.New: one transformer per replacement, in list order
NewTransformer(repls) ==
    [i \in 1..Len(repls) |->
        IF repls[i].re # <<>>
        THEN [kind |-> "regexp", re |-> repls[i].re, old |-> <<>>, new |-> repls[i].Replace]
        ELSE [kind |-> "string", re |-> <<>>, old |-> repls[i].Search, new |-> repls[i].Replace]]

Provision ==
    /\ pc = "new"
    /\ IF Len(Replacements) = 0
       THEN /\ provErr' = [format |-> "no replacements configured", index |-> <<>>, cause |-> ""]
            /\ pc' = "failed"
            /\ UNCHANGED <<Replacements, transformerPool>>
       ELSE \E p \in {PrepareFrom(Replacements, 0)} :
                /\ Replacements' = p.repls
                /\ provErr' = p.err
                /\ IF p.err # NoError
                   THEN pc' = "failed" /\ UNCHANGED transformerPool
                   ELSE /\ pc' = "idle"
                        /\ transformerPool' = [exists |-> TRUE, idle |-> <<>>]
    /\ UNCHANGED <<Stream, requests, tr, fw, rec, w, input, nWrites, ret, declared, sink>>
    /\ UNCHANGED concVars

\* ---------------------------------------------------------------- ServeHTTP
\* ServeHTTP up to the call of next.ServeHTTP: a transformer is taken from
\* the pool (or made by New) and reset, and the writer handed to the
\* upstream handler is set up
ServeHTTPCall ==
    /\ pc \in {"idle", "done"}
    /\ requests < MaxRequests
    /\ transformerPool.exists
    /\ \E fresh \in BOOLEAN :
          /\ fresh \/ transformerPool.idle # <<>>
          /\ transformerPool' =
                IF fresh THEN transformerPool
                ELSE [transformerPool EXCEPT !.idle = Tail(@)]
    /\ tr' = [link |-> ChainReset(NewTransformer(Replacements))]
    /\ fw' = [wroteHeader |-> FALSE, tw |-> NewWriter]
    /\ rec' = NewResponseRecorder
    /\ w' = NewResponse
    /\ input' = <<>>
    /\ nWrites' = 0
    /\ ret' = "pending"
    /\ declared' = FALSE
    /\ sink' = NoSinkError
    /\ requests' = requests + 1
    /\ pc' = "upstream"
    /\ UNCHANGED <<Replacements, Stream, provErr>>
    /\ UNCHANGED concVars

\* the upstream handler sets Content-Length on the header map it shares
\* with the destination
UpstreamSetContentLength ==
    /\ pc = "upstream"
    /\ w.header = NoHeader
    /\ ~w.wroteHeader
    /\ w' = [w EXCEPT !.header = DeclaredLength]
    /\ declared' = TRUE
    /\ UNCHANGED <<Replacements, Stream, transformerPool, provErr, pc, requests,
                   tr, fw, rec, input, nWrites, ret, sink>>
    /\ UNCHANGED concVars

\* fault: replaceWriter.WriteHeader that leaves Content-Length in place
FwWriteHeaderKeepLength(f, rw, status) ==
    IF f.wroteHeader THEN [fw |-> f, w |-> rw]
    ELSE [fw |-> [f EXCEPT !.wroteHeader = TRUE],
          w  |-> WWriteHeader(rw, status, FALSE)]

\* fault: replaceWriter.WriteHeader that does not look at wroteHeader
FwWriteHeaderEveryTime(f, rw, status) ==
    [fw |-> [f EXCEPT !.wroteHeader = TRUE],
     w  |-> WWriteHeader([rw EXCEPT !.header = NoHeader], status, FALSE)]

\* replaceWriter.WriteHeader(status): the writer and the destination after it
FwWriteHeader(f, rw, status) ==
    IF f.wroteHeader THEN [fw |-> f, w |-> rw]
    ELSE [fw |-> [f EXCEPT !.wroteHeader = TRUE],
          w  |-> WWriteHeader([rw EXCEPT !.header = NoHeader], status, FALSE)]

\* responseRecorder.WriteHeader(status) of a recorder that buffers
RecWriteHeader(r, status) ==
    IF r.wroteHeader THEN r
    ELSE [r EXCEPT !.statusCode = status, !.wroteHeader = TRUE, !.stream = ~shouldBuf]

\* the upstream handler calls WriteHeader on the writer it was given
UpstreamWriteHeader(status) ==
    /\ pc = "upstream"
    /\ IF Stream
       THEN \E h \in {FwWriteHeader(fw, w, status)} :
                fw' = h.fw /\ w' = h.w /\ UNCHANGED rec
       ELSE rec' = RecWriteHeader(rec, status) /\ UNCHANGED <<fw, w>>
    /\ UNCHANGED <<Replacements, Stream, transformerPool, provErr, pc, requests,
                   tr, input, nWrites, ret, declared, sink>>
    /\ UNCHANGED concVars

\* fault: replaceWriter.Write that goes to the transform writer without
\* calling WriteHeader first
FwWriteNoHeader(d, f) ==
    \E r \in {WriterWrite(NewTransformer(Replacements), tr.link, fw.tw, d, f)} :
        /\ IF f = 0 THEN TRUE ELSE f <= Len(r.calls) /\ r.calls[f] # <<>>
        /\ fw' = [fw EXCEPT !.tw = r.tw]
        /\ w' = WWriteAll(w, r.calls, 1, f)
        /\ tr' = [link |-> r.link]
        /\ sink' = [sink EXCEPT
                      !.write = IF f # 0 THEN "write error" ELSE "",
                      !.writeReturned = r.err,
                      !.resent = @ \/ (fw.tw.stale /\ \E k \in 1..Len(r.calls) : r.calls[k] # <<>>)]
        /\ UNCHANGED rec

\* replaceWriter.Write(d), the f-th destination write (if any) failing
FwWrite(d, f) ==
    \E h \in {IF fw.wroteHeader THEN [fw |-> fw, w |-> w] ELSE FwWriteHeader(fw, w, 200)},
       r \in {WriterWrite(NewTransformer(Replacements), tr.link, fw.tw, d, f)} :
        /\ IF f = 0 THEN TRUE ELSE f <= Len(r.calls) /\ r.calls[f] # <<>>
        /\ fw' = [h.fw EXCEPT !.tw = r.tw]
        /\ w' = WWriteAll(h.w, r.calls, 1, f)
        /\ tr' = [link |-> r.link]
        /\ sink' = [sink EXCEPT
                      !.write = IF f # 0 THEN "write error" ELSE "",
                      !.writeReturned = r.err,
                      !.resent = @ \/ (fw.tw.stale /\ \E k \in 1..Len(r.calls) : r.calls[k] # <<>>)]
        /\ UNCHANGED rec

\* responseRecorder.Write(d) of a recorder that buffers
RecWrite(d) ==
    /\ rec' = [RecWriteHeader(rec, 200) EXCEPT !.buf = @ \o d]
    /\ UNCHANGED <<fw, w, tr, sink>>

\* the upstream handler writes a chunk of the body
UpstreamWrite(d, f) ==
    /\ pc = "upstream"
    /\ nWrites < MaxWrites
    /\ IF Stream THEN FwWrite(d, f) ELSE f = 0 /\ RecWrite(d)
    /\ input' = input \o d
    /\ nWrites' = nWrites + 1
    /\ UNCHANGED <<Replacements, Stream, transformerPool, provErr, pc, requests, ret,
                   declared>>
    /\ UNCHANGED concVars

\* fault: a streaming cycle that returns without closing the transform writer
StreamReturnNoClose(err, f) ==
    /\ f = 0
    /\ ret' = err
    /\ UNCHANGED <<w, tr, fw, sink, rec>>

\* the deferred fw.tw.Close() of a streaming cycle; its result is dropped
StreamReturn(err, f) ==
    \E r \in {WriterClose(NewTransformer(Replacements), tr.link, fw.tw, f)} :
        /\ IF f = 0 THEN TRUE ELSE f <= Len(r.calls) /\ r.calls[f] # <<>>
        /\ w' = WWriteAll(w, r.calls, 1, f)
        /\ tr' = [link |-> r.link]
        /\ fw' = [fw EXCEPT !.tw = r.tw]
        /\ sink' = [sink EXCEPT
                      !.close = r.err,
                      !.resent = @ \/ (fw.tw.stale /\ r.calls[1] # <<>>)]
        /\ ret' = err
        /\ UNCHANGED rec

\* fault: a buffered cycle that sets Content-Length to the length of the
\* body as it was recorded, before the replacements
BufferedReturnRecordedLength(err, terr) ==
    \E t \in {[TransformBytes(NewTransformer(Replacements), rec.buf) EXCEPT
                  !.err = IF terr # "" THEN terr ELSE @]} :
    \E h \in {IF w.header # NoHeader THEN [w EXCEPT !.header = Len(rec.buf)] ELSE w} :
    \E s \in {IF rec.statusCode > 0 THEN WWriteHeader(h, rec.statusCode, FALSE) ELSE h} :
        /\ IF err # ""
           THEN ret' = err /\ UNCHANGED <<w, tr>>
           ELSE IF rec.stream
           THEN ret' = "" /\ UNCHANGED <<w, tr>>
           ELSE IF t.err # ""
           THEN ret' = t.err /\ w' = w /\ tr' = [link |-> t.link]
           ELSE /\ w' = WWrite(s, t.result, TRUE)
                /\ tr' = [link |-> t.link]
                /\ ret' = ""
        /\ UNCHANGED <<fw, rec, sink>>

\* fault: a buffered cycle that corrects Content-Length before it looks at
\* the error of the transform
BufferedReturnLengthFirst(err, terr) ==
    \E t \in {[TransformBytes(NewTransformer(Replacements), rec.buf) EXCEPT
                  !.err = IF terr # "" THEN terr ELSE @]} :
    \E h \in {IF w.header # NoHeader THEN [w EXCEPT !.header = Len(t.result)] ELSE w} :
    \E s \in {IF rec.statusCode > 0 THEN WWriteHeader(h, rec.statusCode, FALSE) ELSE h} :
        /\ IF err # ""
           THEN ret' = err /\ UNCHANGED <<w, tr>>
           ELSE IF rec.stream
           THEN ret' = "" /\ UNCHANGED <<w, tr>>
           ELSE IF t.err # ""
           THEN ret' = t.err /\ w' = h /\ tr' = [link |-> t.link]
           ELSE /\ w' = WWrite(s, t.result, TRUE)
                /\ tr' = [link |-> t.link]
                /\ ret' = ""
        /\ UNCHANGED <<fw, rec, sink>>

\* fault: a buffered cycle that transforms and writes what was recorded
\* before it looks at the error of the upstream handler
BufferedReturnWriteFirst(err, terr) ==
    \E t \in {[TransformBytes(NewTransformer(Replacements), rec.buf) EXCEPT
                  !.err = IF terr # "" THEN terr ELSE @]} :
    \E h \in {IF w.header # NoHeader THEN [w EXCEPT !.header = Len(t.result)] ELSE w} :
    \E s \in {IF rec.statusCode > 0 THEN WWriteHeader(h, rec.statusCode, FALSE) ELSE h} :
        /\ IF rec.stream
           THEN ret' = err /\ UNCHANGED <<w, tr>>
           ELSE IF t.err # ""
           THEN ret' = t.err /\ w' = w /\ tr' = [link |-> t.link]
           ELSE /\ w' = WWrite(s, t.result, TRUE)
                /\ tr' = [link |-> t.link]
                /\ ret' = err
        /\ UNCHANGED <<fw, rec, sink>>

\* ServeHTTP of a buffered cycle after next.ServeHTTP has returned.  terr
\* is the error transform.Bytes comes back with when the chain gives up
\* (a stage that cannot make progress in the chain's internal buffer), ""
\* when it does not
BufferedReturn(err, terr) ==
    \E t \in {[TransformBytes(NewTransformer(Replacements), rec.buf) EXCEPT
                  !.err = IF terr # "" THEN terr ELSE @]} :
    \E h \in {IF w.header # NoHeader THEN [w EXCEPT !.header = Len(t.result)] ELSE w} :
    \E s \in {IF rec.statusCode > 0 THEN WWriteHeader(h, rec.statusCode, FALSE) ELSE h} :
        /\ IF err # ""
           THEN ret' = err /\ UNCHANGED <<w, tr>>
           ELSE IF rec.stream
           THEN ret' = "" /\ UNCHANGED <<w, tr>>
           ELSE IF t.err # ""
           THEN ret' = t.err /\ w' = w /\ tr' = [link |-> t.link]
           ELSE /\ w' = WWrite(s, t.result, TRUE)
                /\ tr' = [link |-> t.link]
                /\ ret' = ""
        /\ UNCHANGED <<fw, rec, sink>>

\* fault: ServeHTTP that puts the transformer back only when it returns nil
ServeHTTPReturnPutOnSuccess(err, f, terr) ==
    /\ pc = "upstream"
    /\ IF Stream THEN terr = "" /\ StreamReturn(err, f)
       ELSE f = 0 /\ BufferedReturn(err, terr)
    /\ transformerPool' = IF ret' = "" THEN [transformerPool EXCEPT !.idle = Append(@, tr')]
                          ELSE transformerPool
    /\ pc' = "done"
    /\ UNCHANGED <<Replacements, Stream, provErr, requests, input, nWrites, declared>>
    /\ UNCHANGED concVars

\* next.ServeHTTP returns err and ServeHTTP runs to its end: the rest of its
\* body, then the deferred calls, the last of which puts the transformer back
ServeHTTPReturn(err, f, terr) ==
    /\ pc = "upstream"
    /\ IF Stream THEN terr = "" /\ StreamReturn(err, f)
       ELSE f = 0 /\ BufferedReturn(err, terr)
    /\ transformerPool' = [transformerPool EXCEPT !.idle = Append(@, tr')]
    /\ pc' = "done"
    /\ UNCHANGED <<Replacements, Stream, provErr, requests, input, nWrites, declared>>
    /\ UNCHANGED concVars

UpstreamErrors == {"", "upstream error"}

Next ==
    \/ Provision
    \/ ServeHTTPCall
    \/ UpstreamSetContentLength
    \/ \E status \in Statuses : UpstreamWriteHeader(status)
    \/ \E d \in Chunks : UpstreamWrite(d, 0)
    \/ \E err \in UpstreamErrors : ServeHTTPReturn(err, 0, "")

Spec == Init /\ [][Next]_vars

\* the same handler in front of a destination whose writes can fail
NextSinkErr ==
    \/ Provision
    \/ ServeHTTPCall
    \/ UpstreamSetContentLength
    \/ \E status \in Statuses : UpstreamWriteHeader(status)
    \/ \E d \in Chunks, f \in 0..2 : UpstreamWrite(d, f)
    \/ \E err \in UpstreamErrors, f \in 0..1 : ServeHTTPReturn(err, f, "")

SpecSinkErr == Init /\ [][NextSinkErr]_vars

TransformErrors == {"", "transform: short internal buffer"}

\* the same handler with a chain that can give up in transform.Bytes
NextTransformErr ==
    \/ Provision
    \/ ServeHTTPCall
    \/ UpstreamSetContentLength
    \/ \E status \in Statuses : UpstreamWriteHeader(status)
    \/ \E d \in Chunks : UpstreamWrite(d, 0)
    \/ \E err \in UpstreamErrors, terr \in TransformErrors : ServeHTTPReturn(err, 0, terr)

SpecTransformErr == Init /\ [][NextTransformErr]_vars

\* ------------------------------------------------- concurrent request cycles
\* ServeHTTP called from several goroutines on the one provisioned handler.
\* Each call is a cycle of its own (its own w, fw, tw); the handler's pool
\* and the transformers in it are what the calls share.  Every step below is
\* one statement of ServeHTTP, or one call of the upstream handler.
RECURSIVE Flatten(_)
Flatten(ss) == IF ss = <<>> THEN <<>> ELSE Head(ss) \o Flatten(Tail(ss))

\* the chunk the upstream handler of concurrent cycle c writes: neighbouring
\* cycles write different text
CycleChunks(c) ==
    IF <<"f", "o">> \in Chunks
    THEN IF c % 2 = 1 THEN { <<"f", "o">> } ELSE { <<"o", "b", "a", "r">> }
    ELSE IF c % 2 = 1 THEN { <<"B", "A">> } ELSE { <<"A", "B">> }

\* fault: a Get that hands out a pooled transformer and leaves it in the pool
PoolGetKeep(p, k) == p

\* sync.Pool.Get taking the k-th idle transformer: it is no longer in the pool
PoolGet(p, k) == SubSeq(p, 1, k - 1) \o SubSeq(p, k + 1, Len(p))

\* sync.Pool.Put: the pool has no order, its content is kept sorted
PoolPut(p, id) ==
    LET Below(x) == x <= id
        Above(x) == x > id
    IN  SelectSeq(p, Below) \o <<id>> \o SelectSeq(p, Above)

\* tr := h.transformerPool.Get(): an idle transformer, or one made by New
Get(c) ==
    /\ pc = "idle"
    /\ cycles[c].pc = "start"
    /\ \/ /\ instances' = Append(instances, ChainReset(NewTransformer(Replacements)))
          /\ cycles' = [cycles EXCEPT ![c].tr = Len(instances) + 1, ![c].pc = "got"]
          /\ UNCHANGED pooled
       \/ \E k \in 1..Len(pooled) :
             /\ cycles' = [cycles EXCEPT ![c].tr = pooled[k], ![c].pc = "got"]
             /\ pooled' = PoolGet(pooled, k)
             /\ UNCHANGED instances
    /\ UNCHANGED <<Replacements, Stream, transformerPool, provErr, pc>>
    /\ UNCHANGED seqVars

\* tr.Reset(), and the writer the upstream handler is given
Reset(c) ==
    /\ cycles[c].pc = "got"
    /\ instances' = [instances EXCEPT ![cycles[c].tr] = ChainReset(NewTransformer(Replacements))]
    /\ cycles' = [cycles EXCEPT ![c].pc = "upstream", ![c].tw = NewWriter]
    /\ UNCHANGED <<Replacements, Stream, transformerPool, provErr, pc, pooled>>
    /\ UNCHANGED seqVars

\* the upstream handler of cycle c writes a chunk: through the transform
\* writer when streaming, into the recorder otherwise
CycleWrite(c, d) ==
    /\ cycles[c].pc = "upstream"
    /\ Len(cycles[c].writes) < MaxCycleWrites
    /\ IF Stream
       THEN \E r \in {WriterWrite(NewTransformer(Replacements), instances[cycles[c].tr],
                                  cycles[c].tw, d, 0)} :
                /\ cycles' = [cycles EXCEPT ![c].writes = Append(@, d),
                                            ![c].tw = r.tw,
                                            ![c].body = @ \o Flatten(r.calls)]
                /\ instances' = [instances EXCEPT ![cycles[c].tr] = r.link]
       ELSE /\ cycles' = [cycles EXCEPT ![c].writes = Append(@, d)]
            /\ UNCHANGED instances
    /\ UNCHANGED <<Replacements, Stream, transformerPool, provErr, pc, pooled>>
    /\ UNCHANGED seqVars

\* fault: the deferred calls of a streaming cycle the other way round
DeferredPutFirst ==
    IF Stream THEN <<"transformerPool.Put", "fw.tw.Close">> ELSE <<"transformerPool.Put">>

\* the deferred calls of ServeHTTP in the order they run when it returns:
\* last deferred, first run
Deferred ==
    IF Stream THEN <<"fw.tw.Close", "transformerPool.Put">> ELSE <<"transformerPool.Put">>

\* cycle c, whose ServeHTTP is returning, runs its next deferred call; after
\* the last one the call is over and its reference to the transformer gone.
\* st is the state the cycles share: [cycles, instances, pooled]
RunDeferred(st, c) ==
    Strict(st.cycles[c], LAMBDA cy :
    Strict(IF cy.next = Len(Deferred) THEN "done" ELSE "deferred", LAMBDA after :
        IF Deferred[cy.next] = "fw.tw.Close"
        THEN Strict(WriterClose(NewTransformer(Replacements), st.instances[cy.tr], cy.tw, 0),
                    LAMBDA r :
                 [cycles    |-> [st.cycles EXCEPT ![c] =
                                    [cy EXCEPT !.body = @ \o Flatten(r.calls),
                                               !.closed = TRUE,
                                               !.next = @ + 1,
                                               !.pc = after,
                                               !.tr = IF after = "done" THEN 0 ELSE @]],
                  instances |-> [st.instances EXCEPT ![cy.tr] = r.link],
                  pooled    |-> st.pooled])
        ELSE [cycles    |-> [st.cycles EXCEPT ![c] =
                                [cy EXCEPT !.put = TRUE,
                                           !.next = @ + 1,
                                           !.pc = after,
                                           !.tr = IF after = "done" THEN 0 ELSE @]],
              instances |-> st.instances,
              pooled    |-> PoolPut(st.pooled, cy.tr)]))

\* next.ServeHTTP of cycle c returns err.  A streaming cycle returns it, and
\* so does a buffered cycle if it is an error: the first deferred call runs
\* at once.  A buffered cycle without error goes on with what was recorded.
CycleUpstreamReturn(c, err) ==
    /\ cycles[c].pc = "upstream"
    /\ \E st \in {[cycles    |-> [cycles EXCEPT ![c].err = err,
                                                 ![c].pc = IF Stream \/ err # ""
                                                           THEN "deferred" ELSE "returned"],
                    instances |-> instances,
                    pooled    |-> pooled]} :
       \E after \in {IF Stream \/ err # "" THEN RunDeferred(st, c) ELSE st} :
          /\ cycles' = after.cycles
          /\ instances' = after.instances
          /\ pooled' = after.pooled
    /\ UNCHANGED <<Replacements, Stream, transformerPool, provErr, pc>>
    /\ UNCHANGED seqVars

\* the buffered cycle c transforms what was recorded, writes the result and
\* returns nil: the first deferred call runs at once
CycleBuffered(c) ==
    /\ cycles[c].pc = "returned"
    /\ \E t \in {TransformBytes(NewTransformer(Replacements), Flatten(cycles[c].writes))} :
       \E st \in {[cycles    |-> [cycles EXCEPT ![c].body = t.result, ![c].pc = "deferred"],
                    instances |-> [instances EXCEPT ![cycles[c].tr] = t.link],
                    pooled    |-> pooled]} :
       \E after \in {RunDeferred(st, c)} :
          /\ cycles' = after.cycles
          /\ instances' = after.instances
          /\ pooled' = after.pooled
    /\ UNCHANGED <<Replacements, Stream, transformerPool, provErr, pc>>
    /\ UNCHANGED seqVars

\* cycle c runs its next deferred call
CycleDeferred(c) ==
    /\ cycles[c].pc = "deferred"
    /\ \E after \in {RunDeferred([cycles |-> cycles, instances |-> instances,
                                    pooled |-> pooled], c)} :
          /\ cycles' = after.cycles
          /\ instances' = after.instances
          /\ pooled' = after.pooled
    /\ UNCHANGED <<Replacements, Stream, transformerPool, provErr, pc>>
    /\ UNCHANGED seqVars

NextConcurrent ==
    \/ Provision
    \/ \E c \in 1..NumCycles : Get(c)
    \/ \E c \in 1..NumCycles : Reset(c)
    \/ \E c \in 1..NumCycles : \E d \in CycleChunks(c) : CycleWrite(c, d)
    \/ \E c \in 1..NumCycles, err \in UpstreamErrors : CycleUpstreamReturn(c, err)
    \/ \E c \in 1..NumCycles : CycleBuffered(c)
    \/ \E c \in 1..NumCycles : CycleDeferred(c)

SpecConcurrent == Init /\ [][NextConcurrent]_vars

\* ================================================================== claims
\* the chain the handler's pool builds for the provisioned replacements
Chain == NewTransformer(Replacements)

\* the one-shot buffered transform of everything the upstream handler wrote
Buffered == TransformBytes(Chain, input).result

\* every match a regexp rule can make fits the lookahead of its stage
WithinLookahead ==
    \A i \in 1..Len(Chain) : \A k \in 1..Len(Chain[i].re) :
        Len(Chain[i].re[k].text) <= MaxMatchSize

\* C1: in streaming mode, for a chain whose matches fit the lookahead, the
\* bytes delivered to the destination once the cycle has ended (all writes,
\* then the close flush) are the one-shot buffered transform of the input,
\* however the input was split into chunks.
C1_StreamEqualsBuffered ==
    (pc = "done" /\ Stream /\ WithinLookahead) => w.body = Buffered

C4_LengthIsTransformedLength ==
    (~Stream /\ pc = "done" /\ w.wroteHeader) =>
        /\ w.body = Buffered
        /\ w.sentLength = (IF declared THEN Len(Buffered) ELSE NoHeader)

C4_Witness ==
    /\ ~Stream /\ pc = "done" /\ declared /\ w.wroteHeader
    /\ Len(w.body) # Len(input)
    /\ Len(w.body) # DeclaredLength
    /\ w.sentLength = Len(w.body)

\* one rule applied to a whole text, then the next rule to its whole output
RECURSIVE ApplyInOrder(_, _, _)
ApplyInOrder(c, i, text) ==
    IF i > Len(c) THEN text
    ELSE ApplyInOrder(c, i + 1, Transform(c[i], text, TRUE).dst)

AToB == Literal(<<"A">>, <<"B">>)
BToC == Literal(<<"B">>, <<"C">>)

ValidRule(repl) ==
    /\ (repl.Search = <<>>) # (repl.SearchRegexp = <<>>)
    /\ repl.SearchRegexp # <<>> => Compile(repl.SearchRegexp).err = ""

ValidConfig(repls) ==
    /\ Len(repls) > 0
    /\ \A i \in 1..Len(repls) : ValidRule(repls[i])

\* C6: Provision succeeds only on a valid rule list (non-empty, exactly one
\* of search / search_regexp per rule, every regexp compiles); after a
\* failure there is no transformer pool and no request is ever served.
C6_ProvisionValidates ==
    /\ pc \in {"idle", "upstream", "done"} =>
          provErr = NoError /\ ValidConfig(Replacements) /\ transformerPool.exists
    /\ pc = "failed" =>
          provErr # NoError /\ ~ValidConfig(Replacements)
              /\ ~transformerPool.exists /\ requests = 0

C6_Witness ==
    /\ pc = "failed" /\ ~transformerPool.exists
    /\ Len(Replacements) = 2
    /\ Replacements[2].Search # <<>> /\ Replacements[2].SearchRegexp # <<>>

\* the 0-based index of the first rule that is not valid
FirstInvalid(repls) ==
    CHOOSE i \in 0..(Len(repls) - 1) :
        /\ ~ValidRule(repls[i + 1])
        /\ \A j \in 0..(i - 1) : ValidRule(repls[j + 1])

\* C7 as claimed: every error Provision returns carries the index of the
\* offending rule.
C7_EveryErrorHasIndex ==
    provErr # NoError => Len(provErr.index) = 1

\* C7 amended: every error Provision returns about a rule (no search
\* pattern, both patterns, regexp that does not compile) carries the
\* 0-based index of the first offending rule; "no replacements configured",
\* returned for the empty list, carries none.
C7_RuleErrorsHaveIndex ==
    provErr # NoError =>
        IF Len(Replacements) = 0
        THEN provErr.index = <<>>
        ELSE provErr.index = <<FirstInvalid(Replacements)>>

C7_Witness ==
    /\ pc = "failed"
    /\ provErr.index = <<1>>
    /\ provErr.cause = "missing closing )"

\* no rule finds its pattern anywhere in the text
NoMatch(c, text) ==
    \A i \in 1..Len(c) :
        IF c[i].kind = "regexp"
        THEN FindAllSubmatchIndex(c[i].re, text, 0) = <<>>
        ELSE Index(text, c[i].old) = -1

\* C8: when no rule matches anywhere in the input, the body delivered is
\* the input, byte for byte, in buffered mode and in streaming mode for
\* every chunking.
C8_IdentityOnNoMatch ==
    (pc = "done" /\ (Stream \/ ret = "") /\ NoMatch(Chain, input)) =>
        w.body = input

C8_Witness ==
    /\ pc = "done" /\ Stream /\ NoMatch(Chain, input)
    /\ nWrites = 3 /\ fw.tw.src # <<>>
    /\ w.body = input

\* C10: a destination write error reaches the caller: the error of a write
\* made for Write is what Write returns, the error of the write made by the
\* close flush is what ServeHTTP returns, and bytes handed over in a failed
\* write are not handed over again.
C10_SinkErrorPropagated ==
    /\ sink.writeReturned = sink.write
    /\ (pc = "done" /\ sink.close # "") => ret = sink.close
    /\ ~sink.resent

\* the destination as the upstream handler left it: nothing sent, and
\* Content-Length as the upstream handler set it, if it did
Untouched ==
    w = [NewResponse EXCEPT !.header = IF declared THEN DeclaredLength ELSE NoHeader]

\* C11: in buffered mode, when the one-shot transform fails, ServeHTTP
\* returns the error of the transform and the destination is untouched: no
\* WriteHeader, no body byte, Content-Length as it was.
C11_TransformErrorWritesNothing ==
    (~Stream /\ pc = "done" /\ ret \notin UpstreamErrors) =>
        /\ ret \in TransformErrors
        /\ Untouched

C11_Witness ==
    /\ ~Stream /\ pc = "done" /\ ret = "transform: short internal buffer"
    /\ declared /\ rec.statusCode = 404 /\ Len(rec.buf) > 2
    /\ Untouched

\* C20: in buffered mode, when the upstream handler returns an error,
\* ServeHTTP returns that error and the destination is untouched, whatever
\* the upstream handler wrote into the recorder: no WriteHeader, no body
\* byte, Content-Length as it was, the transformer as Reset left it.
C20_UpstreamErrorWritesNothing ==
    (~Stream /\ pc = "done" /\ ret = "upstream error") =>
        /\ Untouched
        /\ tr.link = ChainReset(Chain)

C20_Witness ==
    /\ ~Stream /\ pc = "done" /\ ret = "upstream error"
    /\ declared /\ rec.statusCode = 404 /\ Len(rec.buf) > 2
    /\ Untouched

\* the handler has one rule, a regexp whose every match is longer than the
\* lookahead of its stage
LongMatchRule ==
    /\ Len(Chain) = 1 /\ Chain[1].kind = "regexp"
    /\ \A k \in 1..Len(Chain[1].re) : Len(Chain[1].re[k].text) > MaxMatchSize

\* C14: a regexp match longer than the lookahead, streamed in chunks that
\* straddle it, is left unreplaced: the stage never holds more than the
\* lookahead, no write fails, and the body delivered when the cycle ends is
\* the input.
C14_LongMatchUnreplaced ==
    (Stream /\ LongMatchRule /\ pc \in {"upstream", "done"}) =>
        /\ Len(fw.tw.src) <= MaxMatchSize
        /\ sink.writeReturned = ""
        /\ pc = "done" => w.body = input

\* the handler has the one rule  A(BB|) -> $1C
CaptureRule ==
    /\ Len(Replacements) = 1
    /\ Replacements[1].SearchRegexp = <<"A", "(", "B", "B", "|", ")">>
    /\ Replacements[1].Replace = <<"$", "1", "C">>

\* what the rule  A(BB|) -> $1C  is to make of a text: "ABB" becomes "BBC"
\* (the group took "BB"), any other "A" becomes "C" (the group took nothing)
RECURSIVE SubstituteCapture(_)
SubstituteCapture(text) ==
    IF text = <<>> THEN <<>>
    ELSE IF HasPrefix(text, <<"A", "B", "B">>)
    THEN <<"B", "B", "C">> \o SubstituteCapture(Tail2(text, 3))
    ELSE IF text[1] = "A"
    THEN <<"C">> \o SubstituteCapture(Tail2(text, 1))
    ELSE <<text[1]>> \o SubstituteCapture(Tail2(text, 1))

\* the example of the README, with one blank for each \s+
ReadmeRule ==
    Regexp(<<" ", "f", "o", "o", "(", "b", "a", "r", "|", "b", "a", "z", ")", " ">>,
           <<" ", "f", "o", "o", " ", "$", "1", " ">>)

ReadmeResult ==
    TransformBytes(NewTransformer(PrepareFrom(<<ReadmeRule>>, 0).repls),
                   <<" ", "f", "o", "o", "b", "a", "z", " ">>).result

C16_WriteHeaderOnce ==
    [][ (Stream /\ pc = "upstream") =>
          /\ w'.headerCalls <= 1
          /\ w.headerCalls = 1 =>
                /\ w'.headerCalls = 1
                /\ w'.status = w.status
                /\ w'.sentLength = w.sentLength
                /\ w'.header = w.header
          /\ \A status \in Statuses :
                (w.headerCalls = 0 /\ UpstreamWriteHeader(status)) =>
                    (w'.headerCalls = 1 /\ w'.status = status)
          /\ \A d \in Chunks :
                (w.headerCalls = 0 /\ UpstreamWrite(d, 0)) =>
                    (w'.headerCalls = 1 /\ w'.status = 200) ]_vars

C16_Witness ==
    /\ Stream /\ pc = "upstream"
    /\ w.headerCalls = 1 /\ w.status = 404
    /\ nWrites = 2 /\ w.body # <<>>

\* the bytes stage i of the chain has been given and not consumed yet: for
\* stage 1 the leftover of the transform writer, for a later stage its link
Pending(i) == IF i = 1 THEN fw.tw.src ELSE tr.link[i - 1]

IsSuffix(p, s) == Len(p) <= Len(s) /\ p = Tail2(s, Len(s) - Len(p))

\* what is common to C17 as claimed and as amended: after every write each
\* literal stage holds fewer bytes than its pattern is long; the bytes the
\* first stage holds are the last bytes of the input, and a chain of one
\* literal rule has delivered every byte before them, replaced where the
\* pattern was found
PendingBound ==
    /\ \A i \in 1..Len(Chain) :
          Chain[i].kind = "string" => Len(Pending(i)) < Len(Chain[i].old)
    /\ Chain[1].kind = "string" => IsSuffix(fw.tw.src, input)
    /\ (Len(Chain) = 1 /\ Chain[1].kind = "string") =>
          w.body = Transform(Chain[1],
                             SubSeq(input, 1, Len(input) - Len(fw.tw.src)), TRUE).dst

\* C17 as claimed: what a literal stage holds after a write is moreover a
\* proper prefix of its pattern.
C17_PendingIsPatternPrefix ==
    (Stream /\ pc = "upstream") =>
        /\ PendingBound
        /\ \A i \in 1..Len(Chain) :
              Chain[i].kind = "string" => HasPrefix(Chain[i].old, Pending(i))

\* C17 amended: after every write a literal stage holds the last bytes it
\* was given, fewer than its pattern is long, whether or not they begin the
\* pattern; every byte before them has been emitted, replaced where the
\* pattern was found.
C17_PendingShorterThanPattern ==
    (Stream /\ pc = "upstream") => PendingBound

C17_Witness ==
    /\ Stream /\ pc = "upstream" /\ Len(Chain) = 1
    /\ Chain[1].old = <<"A", "B", "A">>
    /\ fw.tw.src = <<"B", "B">>
    /\ w.body # <<>>

Holds(c) ==
    /\ cycles[c].pc \in {"got", "upstream", "returned", "deferred"}
    /\ ~cycles[c].put

\* the body the writes of a cycle yield on a transformer no other cycle
\* ever touches: every write, then the close flush
RECURSIVE StreamAlone(_, _, _, _, _)
StreamAlone(c, link, tw, body, rest) ==
    IF rest = <<>>
    THEN Strict(WriterClose(c, link, tw, 0), LAMBDA r : body \o Flatten(r.calls))
    ELSE Strict(WriterWrite(c, link, tw, Head(rest), 0), LAMBDA r :
             StreamAlone(c, r.link, r.tw, body \o Flatten(r.calls), Tail(rest)))

Alone(cycle) ==
    IF Stream
    THEN StreamAlone(Chain, ChainReset(Chain), NewWriter, <<>>, cycle.writes)
    ELSE IF cycle.err # "" THEN <<>>
    ELSE TransformBytes(Chain, Flatten(cycle.writes)).result

\* C13: for every interleaving of concurrent cycles, no two cycles hold the
\* same transformer and no transformer a cycle holds is in the pool; the
\* upstream handler of every cycle starts on a transformer with empty
\* buffers; and the body of a finished cycle is what its own writes yield
\* on a transformer of its own, so nothing of another cycle is in it.
C13_TransformerExclusive ==
    /\ \A c1, c2 \in 1..NumCycles :
          (c1 # c2 /\ Holds(c1) /\ Holds(c2)) => cycles[c1].tr # cycles[c2].tr
    /\ \A c \in 1..NumCycles :
          /\ Holds(c) => \A k \in 1..Len(pooled) : pooled[k] # cycles[c].tr
          /\ (cycles[c].pc = "upstream" /\ cycles[c].writes = <<>>) =>
                /\ instances[cycles[c].tr] = ChainReset(Chain)
                /\ cycles[c].tw = NewWriter
          /\ cycles[c].pc = "done" => cycles[c].body = Alone(cycles[c])

C13_Witness ==
    /\ Stream
    /\ cycles[1].pc = "upstream" /\ cycles[2].pc = "upstream"
    /\ cycles[1].writes # <<>> /\ cycles[2].writes # <<>>
    /\ cycles[1].writes # cycles[2].writes
    /\ cycles[1].tr # cycles[2].tr
    /\ \E i \in 1..Len(instances[cycles[1].tr]) : instances[cycles[1].tr][i] # <<>>

\* C19: in streaming mode the close flush of a cycle runs only once the
\* upstream handler has returned, also when it returned an error, and is
\* over before the Put of the cycle; so the writer of every cycle whose
\* transformer is in the pool has been closed.
C19_CloseBeforePut ==
    \A c \in 1..NumCycles :
        /\ Stream =>
              /\ cycles[c].closed => cycles[c].pc \in {"deferred", "done"}
              /\ cycles[c].put => cycles[c].closed
              /\ \A k \in 1..Len(pooled) : pooled[k] = cycles[c].tr => cycles[c].closed
              /\ cycles[c].pc = "done" => cycles[c].closed
        /\ cycles[c].pc = "done" => cycles[c].put

C19_Witness ==
    /\ Stream
    /\ cycles[1].pc = "done" /\ cycles[1].err = "upstream error"
    /\ cycles[1].closed /\ cycles[1].put /\ cycles[1].body # <<>>
    /\ cycles[2].pc = "upstream" /\ Len(instances) = 1 /\ cycles[2].tr = 1

====
